---- MODULE Spec2Model ----
(***************************************************************************)
(* Model of examples/client/main.cpp (libdatachannel client example):      *)
(* the token -> PeerConnection and token -> DataChannel maps, the          *)
(* signaling message handler, the interactive offer loop, the data channel *)
(* callbacks and the reception counter printReceived.                      *)
(***************************************************************************)
EXTENDS Integers, Sequences, FiniteSets, TLC

(* ---- bounds of the model ---- *)
MaxPc == 2          \* PeerConnection objects constructed in one run
MaxDc == 2          \* DataChannel objects created or delivered in one run
MaxMsgs == 1        \* data channel messages received in one run (Spec)
MaxEnv == 2         \* signaling envelopes delivered in one run
MaxTextLen == 81    \* longest text message received
MaxStream == 2010   \* messages received in one run (SpecStream)
MaxCount == 20000010  \* calls of printReceived in one run (SpecCounter)
MaxEvents == 2        \* transport events delivered to the other callbacks
MaxRaceCalls == 12     \* calls of printReceived in one run (SpecCountRace)
MaxDeliveries == 1    \* callbacks run for the remote side in one run (Spec)

(* ---- program constants ---- *)
TruncLen == 80
StartFreq == 100
FreqFactor == 10
FreqCap == 1000000
HelloBinarySize == 256

localToken == "AB12"
RemoteTokens == {"XY34", "QQ77"}
Tokens == {localToken} \cup RemoteTokens
None == 0

VARIABLES
    peerConnectionMap,        \* token -> PeerConnection id
    dataChannelMap,           \* token -> DataChannel id
    pcToken,                  \* PeerConnection id -> token captured by its callbacks
    pcRemote,                 \* PeerConnection id -> remote items applied to it
    nextPc,                   \* number of PeerConnections constructed so far
    dcInfo,                   \* DataChannel id -> [token, pc, origin]
    dcSent,                   \* DataChannel id -> number of messages sent on it
    dcLastSent,               \* DataChannel id -> last message sent on it
    echoDataChannelMessages,  \* command line flag
    mainPc,                   \* position of main: "prompt", "offering", "exited"
    mainTok,                  \* token read by the current loop iteration
    mainLocalPc,              \* pc held by the local variable of the iteration
    wsCalls,                  \* envelopes handed to ws->onMessage so far
    wsLast,                   \* what the last ws->onMessage call did
    wsStage,                  \* position of a ws->onMessage call in progress
    count,                    \* printReceived: static long count
    freq,                     \* printReceived: static long freq
    summaries,                \* counts at which printReceived printed
    calls,                    \* calls of printReceived so far
    received,                 \* data channel messages received so far
    msgLast,                  \* what the last dc->onMessage call did
    out,                      \* last line printed by dc->onMessage
    wsOut,                    \* envelopes sent on the signaling channel, in order
    events,                   \* transport events delivered to the other callbacks
    log,                      \* what the last of those callbacks did
    dcClosed,                 \* DataChannel ids the transport has closed
    torn,                     \* PeerConnection ids released by the cleanup
    wsPromise,                \* state of wsPromise: "unset", "value", "exception"
    prStage                   \* thread -> position of its printReceived call

vars == <<peerConnectionMap, dataChannelMap, pcToken, pcRemote, nextPc, dcInfo,
          dcSent, dcLastSent, echoDataChannelMessages, mainPc, mainTok,
          mainLocalPc, wsCalls, wsLast, wsStage, count, freq, summaries, calls,
          received, msgLast, out, wsOut, events, log, dcClosed, torn, wsPromise,
          prStage>>

registry == <<peerConnectionMap, dataChannelMap>>
pcVars == <<pcToken, pcRemote, nextPc>>
dcVars == <<dcInfo, dcSent, dcLastSent>>
mainVars == <<mainPc, mainTok, mainLocalPc>>
wsVars == <<wsCalls, wsLast, wsStage>>
counterVars == <<count, freq, summaries, calls>>
msgVars == <<received, msgLast, out>>
cbVars == <<wsOut, events, log, dcClosed, torn, wsPromise, prStage>>

Range(f) == {f[x] : x \in DOMAIN f}
EmptyMap == [x \in {} |-> None]

(* Emplace into a registry that holds one session at a time *)
EmplaceEvicting(map, key, val) ==
    IF key \in DOMAIN map THEN map ELSE [k \in {key} |-> val]

(* unordered_map::emplace: inserts only when the key is absent *)
Emplace(map, key, val) ==
    IF key \in DOMAIN map THEN map
    ELSE [k \in DOMAIN map \cup {key} |-> IF k = key THEN val ELSE map[k]]

(* ---- signaling payloads: variant<binary, string>, the string is JSON or not ---- *)
Keys == {"token", "type", "description", "candidate", "mid"}
Types == {"offer", "answer", "candidate", "bye"}
JStr(s) == [isString |-> TRUE, s |-> s]
JNum == [isString |-> FALSE, s |-> "7"]
FullObjs ==
    {[token |-> JStr(a), type |-> JStr(b), description |-> JStr("sdp"),
      candidate |-> JStr("cand"), mid |-> JStr("0")] : a \in Tokens, b \in Types}
(* the keys lines 138-145 read for a type *)
Reads(type) ==
    IF type \in {"offer", "answer"} THEN {"description"}
    ELSE IF type = "candidate" THEN {"candidate", "mid"}
    ELSE {}
(* an object lacks nothing, or one of the keys the handler would read *)
Shapes(full) == {Keys} \cup {Keys \ {k} : k \in {"token", "type"} \cup Reads(full.type.s)}
Objs == UNION {{[k \in D |-> full[k]] : D \in Shapes(full)} : full \in FullObjs}
            \cup {[k \in {} |-> JNum]}
            \cup {[full EXCEPT !.token = JNum] : full \in FullObjs}
            \cup {[full EXCEPT !.type = JNum] : full \in FullObjs}
Binary == [bin |-> TRUE, wellFormed |-> FALSE, obj |-> EmptyMap]
Garbage == [bin |-> FALSE, wellFormed |-> FALSE, obj |-> EmptyMap]
Raws == {Binary, Garbage} \cup {[bin |-> FALSE, wellFormed |-> TRUE, obj |-> o] : o \in Objs}

(* json::get<string>() of message[key]: operator[] yields null for a missing key,
   and get<string>() throws on anything that is not a string *)
HasString(message, key) == key \in DOMAIN message /\ message[key].isString

(* the prologue of ws->onMessage, lines 113-126:
   "return", "throw", or "go" with the token and the type *)
Decode(raw) ==
    IF raw.bin THEN [r |-> "return", why |-> "binary", token |-> "", type |-> ""]
    ELSE IF ~raw.wellFormed THEN [r |-> "throw", why |-> "parse", token |-> "", type |-> ""]
    ELSE IF "token" \notin DOMAIN raw.obj
        THEN [r |-> "return", why |-> "no token", token |-> "", type |-> ""]
    ELSE IF ~raw.obj["token"].isString
        THEN [r |-> "throw", why |-> "token not a string", token |-> "", type |-> ""]
    ELSE IF "type" \notin DOMAIN raw.obj
        THEN [r |-> "return", why |-> "no type", token |-> raw.obj["token"].s, type |-> ""]
    ELSE IF ~raw.obj["type"].isString
        THEN [r |-> "throw", why |-> "type not a string", token |-> raw.obj["token"].s,
              type |-> ""]
    ELSE [r |-> "go", why |-> "", token |-> raw.obj["token"].s, type |-> raw.obj["type"].s]

(* lines 138-145: which remote item is handed to the PeerConnection, or "throw"
   when a get<string>() fails, or "none" for a type that is neither *)
RemoteItem(message, type) ==
    IF type \in {"offer", "answer"}
    THEN IF HasString(message, "description") THEN type ELSE "throw"
    ELSE IF type = "candidate"
    THEN IF HasString(message, "candidate") /\ HasString(message, "mid")
         THEN "candidate" ELSE "throw"
    ELSE "none"

(* the verdicts of the transport on the item of an envelope, where it is asked *)
Verdicts(item) == IF item \in {"offer", "answer", "candidate"} THEN BOOLEAN ELSE {TRUE}
RawVerdicts(raw) ==
    IF Decode(raw).r = "go" THEN Verdicts(RemoteItem(raw.obj, Decode(raw).type)) ELSE {TRUE}

(* objects that are still referenced: by a map or by a local variable *)
LivePcs == Range(peerConnectionMap) \cup ({mainLocalPc, wsStage.pc} \ {None})
LiveDcs == Range(dataChannelMap)
LivePcsOf(t) == {p \in LivePcs : pcToken[p] = t}

(* wws.lock(): main holds the only shared_ptr of the WebSocket until it returns *)
WsLocks == mainPc # "exited"

(* the callbacks of a connection fire while somebody holds it, and can still
   fire late on one that the cleanup has just released *)
Fires(p) == p \in LivePcs \cup torn

NoWs == [tok |-> "", type |-> "", why |-> "", decoded |-> FALSE, result |-> "none",
         found |-> FALSE, created |-> FALSE, pc |-> None]
NoStage == [at |-> "idle", pc |-> None, token |-> "", type |-> "", item |-> "none",
            found |-> FALSE]
NoMsg == [dc |-> None, data |-> [kind |-> "", body |-> <<>>], echoed |-> FALSE,
          counted |-> FALSE, send |-> ""]
NoOut == [kind |-> "", token |-> "", prefix |-> <<>>, ellipsis |-> "", size |-> 0]
NoLog == [kind |-> "", id |-> None, text |-> "", fault |-> ""]

(* the transport threads that can be inside printReceived at the same time *)
Threads == {"t1", "t2"}
NoCall == [at |-> "idle", tmp |-> 0]

Start ==
    /\ peerConnectionMap = EmptyMap
    /\ dataChannelMap = EmptyMap
    /\ pcToken = EmptyMap
    /\ pcRemote = EmptyMap
    /\ nextPc = 0
    /\ dcInfo = EmptyMap
    /\ dcSent = EmptyMap
    /\ dcLastSent = EmptyMap
    /\ echoDataChannelMessages \in BOOLEAN
    /\ mainTok = ""
    /\ mainLocalPc = None
    /\ wsCalls = 0
    /\ wsLast = NoWs
    /\ wsStage = NoStage
    /\ count = 0
    /\ freq = StartFreq
    /\ summaries = {}
    /\ calls = 0
    /\ received = 0
    /\ msgLast = NoMsg
    /\ out = NoOut
    /\ wsOut = <<>>
    /\ events = 0
    /\ log = NoLog
    /\ dcClosed = {}
    /\ torn = {}
    /\ prStage = [th \in Threads |-> NoCall]

(* main at the prompt of the interactive loop: wsFuture.get() has returned *)
Init == Start /\ mainPc = "prompt" /\ wsPromise = "value"

(* main before the signaling channel is ready, lines 97-161 *)
InitWait == Start /\ mainPc = "waiting" /\ wsPromise = "unset"

(* ---- createPeerConnection, lines 245-328: construct, wire callbacks, emplace ---- *)
(* Created without the emplace of line 326 *)
CreatedUnregistered(token) ==
    [pc |-> nextPc + 1,
     pcToken |-> [p \in DOMAIN pcToken \cup {nextPc + 1} |->
                     IF p = nextPc + 1 THEN token ELSE pcToken[p]],
     pcRemote |-> [p \in DOMAIN pcRemote \cup {nextPc + 1} |->
                     IF p = nextPc + 1 THEN {} ELSE pcRemote[p]],
     map |-> peerConnectionMap]

Created(token) ==
    [pc |-> nextPc + 1,
     pcToken |-> [p \in DOMAIN pcToken \cup {nextPc + 1} |->
                     IF p = nextPc + 1 THEN token ELSE pcToken[p]],
     pcRemote |-> [p \in DOMAIN pcRemote \cup {nextPc + 1} |->
                     IF p = nextPc + 1 THEN {} ELSE pcRemote[p]],
     map |-> Emplace(peerConnectionMap, token, nextPc + 1)]

createPeerConnection(token) ==
    /\ nextPc < MaxPc
    /\ nextPc' = Created(token).pc
    /\ pcToken' = Created(token).pcToken
    /\ pcRemote' = Created(token).pcRemote
    /\ peerConnectionMap' = Created(token).map

(* Resolve without the lookup of line 129: every offer constructs *)
ResolveNoLookup(token, type) ==
    IF type = "offer"
    THEN [found |-> FALSE, create |-> TRUE, pc |-> nextPc + 1]
    ELSE IF token \in DOMAIN peerConnectionMap
    THEN [found |-> TRUE, create |-> FALSE, pc |-> peerConnectionMap[token]]
    ELSE [found |-> FALSE, create |-> FALSE, pc |-> None]

(* Resolve without the test of line 131: any type constructs *)
ResolveAnyType(token, type) ==
    IF token \in DOMAIN peerConnectionMap
    THEN [found |-> TRUE, create |-> FALSE, pc |-> peerConnectionMap[token]]
    ELSE [found |-> FALSE, create |-> TRUE, pc |-> nextPc + 1]

(* lines 129-136: the connection the handler goes on with, None for "return" *)
Resolve(token, type) ==
    IF token \in DOMAIN peerConnectionMap
    THEN [found |-> TRUE, create |-> FALSE, pc |-> peerConnectionMap[token]]
    ELSE IF type = "offer"
    THEN [found |-> FALSE, create |-> TRUE, pc |-> nextPc + 1]
    ELSE [found |-> FALSE, create |-> FALSE, pc |-> None]

(* lines 138-145 on connection pc; the transport accepts the item or throws *)
Applied(remote, pc, item, accept) ==
    IF item \in {"offer", "answer", "candidate"} /\ accept
    THEN [remote EXCEPT ![pc] = @ \cup {item}]
    ELSE remote

ApplyResult(item, accept) ==
    IF item = "throw" THEN "throw"
    ELSE IF item = "none" THEN "return"
    ELSE IF accept THEN "applied" ELSE "throw"

(* what a call that ended in the prologue, or at line 135, leaves behind *)
Ended(d, result) ==
    [tok |-> d.token, type |-> d.type, why |-> d.why, decoded |-> d.r = "go",
     result |-> result,
     found |-> FALSE, created |-> FALSE, pc |-> None]

(* the dispatch loop of the signaling channel, which calls ws->onMessage: it
   logs a failure raised by the handler and goes on with the next message *)
Dispatch(result) == NoStage

(* ---- ws->onMessage, lines 112-146, as one step ---- *)
WsOnMessage(raw, accept) ==
    /\ wsStage.at = "idle"
    /\ wsCalls < MaxEnv
    /\ wsCalls' = wsCalls + 1
    /\ LET d == Decode(raw)
           r == Resolve(d.token, d.type)
           item == RemoteItem(raw.obj, d.type)
       IN  IF d.r # "go"
           THEN /\ wsLast' = Ended(d, d.r)
                /\ UNCHANGED <<peerConnectionMap, pcVars>>
           ELSE IF r.pc = None
           THEN /\ wsLast' = Ended(d, "return")
                /\ UNCHANGED <<peerConnectionMap, pcVars>>
           ELSE /\ IF r.create
                   THEN /\ nextPc < MaxPc
                        /\ nextPc' = Created(d.token).pc
                        /\ pcToken' = Created(d.token).pcToken
                        /\ peerConnectionMap' = Created(d.token).map
                        /\ pcRemote' = Applied(Created(d.token).pcRemote, r.pc, item, accept)
                   ELSE /\ UNCHANGED <<nextPc, pcToken, peerConnectionMap>>
                        /\ pcRemote' = Applied(pcRemote, r.pc, item, accept)
                /\ wsLast' = [tok |-> d.token, type |-> d.type, why |-> "", decoded |-> TRUE,
                              result |-> ApplyResult(item, accept), found |-> r.found,
                              created |-> r.create, pc |-> r.pc]
    /\ wsStage' = Dispatch(wsLast'.result)
    /\ UNCHANGED <<dataChannelMap, dcVars, echoDataChannelMessages, cbVars, mainVars,
                   counterVars, msgVars>>

(* ---- ws->onMessage statement by statement: the callback runs on a transport
   thread while main runs the interactive loop, and nothing locks the maps.
   Each map operation is taken as one step, the kindest reading of the
   unsynchronised access. ---- *)
(* lines 113-131 and 135: decode, then peerConnectionMap.find *)
WsLookup(raw) ==
    /\ wsStage.at = "idle"
    /\ wsCalls < MaxEnv
    /\ LET d == Decode(raw)
           r == Resolve(d.token, d.type)
       IN  IF d.r # "go" \/ (~r.found /\ ~r.create)
           THEN /\ wsCalls' = wsCalls + 1
                /\ wsLast' = Ended(d, IF d.r # "go" THEN d.r ELSE "return")
                /\ wsStage' = Dispatch(wsLast'.result)
           ELSE /\ wsStage' = [at |-> IF r.found THEN "apply" ELSE "create",
                               pc |-> IF r.found THEN r.pc ELSE None,
                               token |-> d.token, type |-> d.type,
                               item |-> RemoteItem(raw.obj, d.type), found |-> r.found]
                /\ UNCHANGED <<wsCalls, wsLast>>
    /\ UNCHANGED <<registry, pcVars, dcVars, echoDataChannelMessages, cbVars, mainVars,
                   counterVars, msgVars>>

(* line 133: createPeerConnection, which ends in peerConnectionMap.emplace *)
WsCreate ==
    /\ wsStage.at = "create"
    /\ createPeerConnection(wsStage.token)
    /\ wsStage' = [wsStage EXCEPT !.at = "apply", !.pc = nextPc + 1]
    /\ UNCHANGED <<dataChannelMap, dcVars, echoDataChannelMessages, cbVars, mainVars, wsCalls,
                   wsLast, counterVars, msgVars>>

(* lines 138-145 on the connection the handler holds, then the handler returns *)
WsApply(accept) ==
    /\ wsStage.at = "apply"
    /\ pcRemote' = Applied(pcRemote, wsStage.pc, wsStage.item, accept)
    /\ wsCalls' = wsCalls + 1
    /\ wsLast' = [tok |-> wsStage.token, type |-> wsStage.type, why |-> "",
                  decoded |-> TRUE,
                  result |-> ApplyResult(wsStage.item, accept),
                  found |-> wsStage.found, created |-> ~wsStage.found, pc |-> wsStage.pc]
    /\ wsStage' = Dispatch(wsLast'.result)
    /\ UNCHANGED <<registry, pcToken, nextPc, dcVars, echoDataChannelMessages, cbVars, mainVars,
                   counterVars, msgVars>>

(* ---- the interactive loop of main, lines 163-229 ---- *)
(* line 170: the local token is skipped *)
MainReadLocal ==
    /\ mainPc = "prompt"
    /\ mainTok' = localToken
    /\ UNCHANGED <<registry, pcVars, dcVars, echoDataChannelMessages, cbVars, mainPc,
                   mainLocalPc, wsVars, counterVars, msgVars>>

(* lines 173-174: createPeerConnection for the token read *)
MainOffer(token) ==
    /\ mainPc = "prompt"
    /\ token # "" /\ token # localToken
    /\ createPeerConnection(token)
    /\ mainPc' = "offering"
    /\ mainTok' = token
    /\ mainLocalPc' = nextPc + 1
    /\ UNCHANGED <<dataChannelMap, dcVars, echoDataChannelMessages, cbVars, wsVars,
                   counterVars, msgVars>>

NewDc == Cardinality(DOMAIN dcInfo) + 1
WithDc(f, d, v) == [x \in DOMAIN f \cup {d} |-> IF x = d THEN v ELSE f[x]]
NoData == [kind |-> "", body |-> <<>>]

(* lines 177-229: createDataChannel, its callbacks, dataChannelMap.emplace,
   then pc and dc go out of scope *)
MainCreateChannel ==
    /\ mainPc = "offering"
    /\ NewDc <= MaxDc
    /\ dcInfo' = WithDc(dcInfo, NewDc, [token |-> mainTok, pc |-> mainLocalPc,
                                        origin |-> "local", opened |-> FALSE])
    /\ dcSent' = WithDc(dcSent, NewDc, 0)
    /\ dcLastSent' = WithDc(dcLastSent, NewDc, NoData)
    /\ dataChannelMap' = Emplace(dataChannelMap, mainTok, NewDc)
    /\ mainPc' = "prompt"
    /\ mainLocalPc' = None
    /\ UNCHANGED <<peerConnectionMap, pcVars, echoDataChannelMessages, cbVars, mainTok,
                   wsVars, counterVars, msgVars>>

(* lines 168-169 and 231-235: an empty token ends the loop, cleanup clears the maps *)
MainExit ==
    /\ mainPc = "prompt"
    /\ mainPc' = "exited"
    /\ mainTok' = ""
    /\ dataChannelMap' = EmptyMap
    /\ peerConnectionMap' = EmptyMap
    /\ torn' = torn \cup Range(peerConnectionMap)
    /\ UNCHANGED <<wsOut, events, log, dcClosed, wsPromise, prStage>>
    /\ UNCHANGED <<pcVars, dcVars, echoDataChannelMessages, mainLocalPc, wsVars,
                   counterVars, msgVars>>

(* ---- data channel payloads: variant<binary, string> ---- *)
Body(len, seed) == [i \in 1..len |-> (i + seed) % 3]
TextLens == {0, 1, TruncLen - 1, TruncLen, MaxTextLen}
Texts == {[kind |-> "text", body |-> Body(l, 0)] : l \in TextLens}
Binaries == {[kind |-> "binary", body |-> Body(l, 0)] : l \in {0, 2}}
Datas == Texts \cup Binaries
FewDatas == {[kind |-> "text", body |-> Body(1, 0)],
             [kind |-> "text", body |-> Body(MaxTextLen, 1)],
             [kind |-> "binary", body |-> Body(2, 0)]}
HelloBinary == [kind |-> "binary", body |-> <<"randomData", HelloBinarySize>>]

(* the greeting of lines 186-191 and 312-317: a text, then 256 random bytes *)
Greeted(sent, d) == [sent EXCEPT ![d] = @ + 2]
GreetedLast(last, d) == [last EXCEPT ![d] = HelloBinary]

(* ---- printReceived, lines 331-343 ---- *)
(* Hit with count++ in place of ++count *)
HitPostIncrement(c, f) == c % f = 0

Hit(c, f) == (c + 1) % f = 0

(* NextFreq without the cap of line 339 *)
NextFreqNoCap(c, f) ==
    IF Hit(c, f) /\ c + 1 >= f * FreqFactor THEN f * FreqFactor ELSE f

NextFreq(c, f) ==
    IF Hit(c, f) /\ c + 1 >= f * FreqFactor /\ f < FreqCap THEN f * FreqFactor ELSE f

printReceived(echoed, token, length, type) ==
    /\ count' = count + 1
    /\ summaries' = IF Hit(count, freq) THEN summaries \cup {count + 1} ELSE summaries
    /\ freq' = NextFreq(count, freq)
    /\ calls' = calls + 1

(* Printed with <= in place of < at line 214 *)
PrintedOffByOne(token, data) ==
    IF data.kind = "text"
    THEN IF Len(data.body) <= TruncLen
         THEN [kind |-> "text", token |-> token, prefix |-> data.body,
               ellipsis |-> "", size |-> 0]
         ELSE [kind |-> "text", token |-> token,
               prefix |-> SubSeq(data.body, 1, TruncLen), ellipsis |-> "...", size |-> 0]
    ELSE [kind |-> "binary", token |-> token, prefix |-> <<>>, ellipsis |-> "",
          size |-> Len(data.body)]

(* ---- the line printed by dc->onMessage when echo is off, lines 213-225, 296-308 ---- *)
Printed(token, data) ==
    IF data.kind = "text"
    THEN IF Len(data.body) < TruncLen
         THEN [kind |-> "text", token |-> token, prefix |-> data.body,
               ellipsis |-> "", size |-> 0]
         ELSE [kind |-> "text", token |-> token,
               prefix |-> SubSeq(data.body, 1, TruncLen), ellipsis |-> "...", size |-> 0]
    ELSE [kind |-> "binary", token |-> token, prefix |-> <<>>, ellipsis |-> "",
          size |-> Len(data.body)]

(* Send that echoes the printed prefix instead of the payload *)
SendTruncated(last, d, data) ==
    [last EXCEPT ![d] = [kind |-> data.kind,
                         body |-> SubSeq(data.body, 1, IF Len(data.body) < TruncLen
                                                       THEN Len(data.body) ELSE TruncLen)]]

(* dc->send(data), lines 208 and 291: what was handed to the channel last, and
   how many payloads were *)
Send(last, d, data) == [last EXCEPT ![d] = data]
SendCount(sent, d) == [sent EXCEPT ![d] = @ + 1]

(* wdc.lock(): the channel is still owned by somebody *)
Locks(d) == d \in LiveDcs

(* how dc->send(data) at lines 208 and 291 can end on a channel the handler
   holds: the payload is taken, or, on a channel the transport has closed, it
   is not and send returns false or throws *)
SendVerdicts(d) == IF d \in dcClosed THEN {"false", "throw"} ELSE {"sent"}

(* ---- dc->onMessage, lines 202-226 (local channel) and 285-309 (incoming);
   verdict is how the send of the echo branch ends, where it is attempted ---- *)
DcOnMessage(d, data, verdict) ==
    /\ d \in DOMAIN dcInfo
    /\ received' = received + 1
    /\ IF echoDataChannelMessages
       THEN /\ dcSent' = IF Locks(d) THEN SendCount(dcSent, d) ELSE dcSent
            /\ dcLastSent' = IF Locks(d) THEN Send(dcLastSent, d, data) ELSE dcLastSent
            /\ IF Locks(d) /\ verdict = "throw"
               THEN /\ msgLast' = [dc |-> d, data |-> data, echoed |-> FALSE,
                                   counted |-> FALSE, send |-> verdict]
                    /\ UNCHANGED counterVars
               ELSE /\ printReceived(Locks(d), dcInfo[d].token, Len(data.body), data.kind)
                    /\ msgLast' = [dc |-> d, data |-> data, echoed |-> Locks(d),
                                   counted |-> TRUE,
                                   send |-> IF Locks(d) THEN verdict ELSE "none"]
            /\ UNCHANGED out
       ELSE /\ out' = Printed(dcInfo[d].token, data)
            /\ msgLast' = [dc |-> d, data |-> data, echoed |-> FALSE, counted |-> FALSE,
                           send |-> "none"]
            /\ UNCHANGED <<dcSent, dcLastSent, counterVars>>
    /\ UNCHANGED <<registry, pcVars, dcInfo, echoDataChannelMessages, cbVars, mainVars, wsVars>>

(* the verdicts that can differ for a message on d *)
MsgVerdicts(d) == IF echoDataChannelMessages /\ Locks(d) THEN SendVerdicts(d) ELSE {"sent"}

(* ---- dc->onOpen of a locally created channel, lines 181-197 ---- *)
DcOnOpen(d) ==
    /\ d \in DOMAIN dcInfo
    /\ dcInfo[d].origin = "local"
    /\ ~dcInfo[d].opened
    /\ dcInfo' = [dcInfo EXCEPT ![d].opened = TRUE]
    /\ dcSent' = IF Locks(d) THEN Greeted(dcSent, d) ELSE dcSent
    /\ dcLastSent' = IF Locks(d) THEN GreetedLast(dcLastSent, d) ELSE dcLastSent
    /\ UNCHANGED <<registry, pcVars, echoDataChannelMessages, cbVars, mainVars, wsVars,
                   counterVars, msgVars>>

(* ---- pc->onDataChannel, lines 278-324: the remote peer opened a channel on p ---- *)
PcOnDataChannel(p) ==
    /\ Fires(p)
    /\ NewDc <= MaxDc
    /\ dcInfo' = WithDc(dcInfo, NewDc, [token |-> pcToken[p], pc |-> p,
                                        origin |-> "remote", opened |-> TRUE])
    /\ dcSent' = WithDc(dcSent, NewDc, 2)
    /\ dcLastSent' = WithDc(dcLastSent, NewDc, HelloBinary)
    /\ dataChannelMap' = Emplace(dataChannelMap, pcToken[p], NewDc)
    /\ UNCHANGED <<peerConnectionMap, pcVars, echoDataChannelMessages, cbVars, mainVars,
                   wsVars, counterVars, msgVars>>

(* ---- pc->onStateChange, line 249, and pc->onGatheringStateChange, lines 251-252:
   both print the state ---- *)
PcStates == {"connected", "disconnected", "failed", "closed"}
GatheringStates == {"in-progress", "complete"}

PcOnStateChange(p, state) ==
    /\ Fires(p)
    /\ events < MaxEvents
    /\ events' = events + 1
    /\ log' = [kind |-> "state", id |-> p, text |-> state, fault |-> ""]
    /\ UNCHANGED <<registry, pcVars, dcVars, echoDataChannelMessages, mainVars, wsVars,
                   counterVars, msgVars, wsOut, dcClosed, torn, wsPromise, prStage>>

PcOnGatheringStateChange(p, state) ==
    /\ Fires(p)
    /\ events < MaxEvents
    /\ events' = events + 1
    /\ log' = [kind |-> "gathering", id |-> p, text |-> state, fault |-> ""]
    /\ UNCHANGED <<registry, pcVars, dcVars, echoDataChannelMessages, mainVars, wsVars,
                   counterVars, msgVars, wsOut, dcClosed, torn, wsPromise, prStage>>

(* ---- the envelopes built at lines 256-257 and 268-271; from is the connection
   whose callback built it ---- *)
DescriptionEnvelope(p, type, sdp) ==
    [from |-> p, keys |-> {"token", "type", "description"}, token |-> pcToken[p],
     type |-> type, description |-> sdp, candidate |-> "", mid |-> ""]

CandidateEnvelope(p, candidate, mid) ==
    [from |-> p, keys |-> {"token", "type", "candidate", "mid"}, token |-> pcToken[p],
     type |-> "candidate", description |-> "", candidate |-> candidate, mid |-> mid]

(* ws->send(message.dump()) behind wws.lock(), lines 259-260 and 273-274 *)
WsSend(o, envelope) == IF WsLocks THEN Append(o, envelope) ELSE o

LocalTypes == {"offer", "answer"}
LocalSdps == {"local-sdp"}

(* ---- pc->onLocalDescription, lines 254-261 ---- *)
PcOnLocalDescription(p, type, sdp) ==
    /\ Fires(p)
    /\ events < MaxEvents
    /\ events' = events + 1
    /\ wsOut' = WsSend(wsOut, DescriptionEnvelope(p, type, sdp))
    /\ log' = [kind |-> "description", id |-> p, text |-> type, fault |-> ""]
    /\ UNCHANGED <<registry, pcVars, dcVars, echoDataChannelMessages, mainVars, wsVars,
                   counterVars, msgVars, dcClosed, torn, wsPromise, prStage>>

(* the candidates a transport gathers: matches says whether the text of the
   candidate contains webSocketIpAddr *)
LocalCandidates == {[candidate |-> "cand-ws-ip", mid |-> "0", matches |-> TRUE],
                    [candidate |-> "cand-other", mid |-> "0", matches |-> FALSE]}

(* line 264: the filter; skip is the flag skipNonMatchingIpAddresses *)
Skipped(skip, c) == skip /\ ~c.matches

(* ---- pc->onLocalCandidate, lines 263-276 ---- *)
PcOnLocalCandidate(p, c, skip) ==
    /\ Fires(p)
    /\ events < MaxEvents
    /\ events' = events + 1
    /\ wsOut' = IF Skipped(skip, c) THEN wsOut
                ELSE WsSend(wsOut, CandidateEnvelope(p, c.candidate, c.mid))
    /\ log' = [kind |-> IF Skipped(skip, c) THEN "skipped" ELSE "candidate", id |-> p,
               text |-> c.candidate, fault |-> ""]
    /\ UNCHANGED <<registry, pcVars, dcVars, echoDataChannelMessages, mainVars, wsVars,
                   counterVars, msgVars, dcClosed, torn, wsPromise, prStage>>

(* DcOnClosed that also erases the channel of the token from the registry *)
DcOnClosedErasing(d) ==
    /\ d \in DOMAIN dcInfo
    /\ d \notin dcClosed
    /\ events < MaxEvents
    /\ events' = events + 1
    /\ dcClosed' = dcClosed \cup {d}
    /\ log' = [kind |-> "closed", id |-> d, text |-> dcInfo[d].token, fault |-> ""]
    /\ dataChannelMap' = [t \in DOMAIN dataChannelMap \ {dcInfo[d].token} |->
                              dataChannelMap[t]]
    /\ UNCHANGED <<peerConnectionMap, pcVars, dcVars, echoDataChannelMessages, mainVars,
                   wsVars, counterVars, msgVars, wsOut, torn, wsPromise, prStage>>

(* ---- dc->onClosed, lines 199-200 and 282-283: the transport closed channel d,
   the callback prints a line ---- *)
DcOnClosed(d) ==
    /\ d \in DOMAIN dcInfo
    /\ d \notin dcClosed
    /\ events < MaxEvents
    /\ events' = events + 1
    /\ dcClosed' = dcClosed \cup {d}
    /\ log' = [kind |-> "closed", id |-> d, text |-> dcInfo[d].token, fault |-> ""]
    /\ UNCHANGED <<registry, pcVars, dcVars, echoDataChannelMessages, mainVars, wsVars,
                   counterVars, msgVars, wsOut, torn, wsPromise, prStage>>

(* std::promise: the first set_value or set_exception makes the shared state
   ready, any later one throws std::future_error (promise_already_satisfied) *)
Settle(promise, with) ==
    IF promise = "unset" THEN [promise |-> with, fault |-> ""]
    ELSE [promise |-> promise, fault |-> "future_error"]

(* ---- ws->onOpen, lines 100-103: wsPromise.set_value() ---- *)
WsOnOpen ==
    /\ WsLocks
    /\ events < MaxEvents
    /\ events' = events + 1
    /\ wsPromise' = Settle(wsPromise, "value").promise
    /\ log' = [kind |-> "open", id |-> None, text |-> "",
               fault |-> Settle(wsPromise, "value").fault]
    /\ UNCHANGED <<registry, pcVars, dcVars, echoDataChannelMessages, mainVars, wsVars,
                   counterVars, msgVars, wsOut, dcClosed, torn, prStage>>

(* ---- ws->onError, lines 105-108: wsPromise.set_exception(...) ---- *)
WsOnError ==
    /\ WsLocks
    /\ events < MaxEvents
    /\ events' = events + 1
    /\ wsPromise' = Settle(wsPromise, "exception").promise
    /\ log' = [kind |-> "error", id |-> None, text |-> "",
               fault |-> Settle(wsPromise, "exception").fault]
    /\ UNCHANGED <<registry, pcVars, dcVars, echoDataChannelMessages, mainVars, wsVars,
                   counterVars, msgVars, wsOut, dcClosed, torn, prStage>>

(* ---- wsFuture.get(), line 161: returns once the promise holds a value; an
   exception is rethrown into the function-try-block of main, lines 237-242,
   which clears the registries and returns ---- *)
MainGet ==
    /\ mainPc = "waiting"
    /\ wsPromise # "unset"
    /\ IF wsPromise = "value"
       THEN /\ mainPc' = "prompt"
            /\ UNCHANGED <<registry, torn>>
       ELSE /\ mainPc' = "exited"
            /\ dataChannelMap' = EmptyMap
            /\ peerConnectionMap' = EmptyMap
            /\ torn' = torn \cup Range(peerConnectionMap)
    /\ UNCHANGED <<pcVars, dcVars, echoDataChannelMessages, mainTok, mainLocalPc, wsVars,
                   counterVars, msgVars, wsOut, events, log, dcClosed, wsPromise, prStage>>

(* ---- the program: callbacks run as whole steps ---- *)
MainStep ==
    \/ MainReadLocal
    \/ \E token \in RemoteTokens : MainOffer(token)
    \/ MainCreateChannel
    \/ MainExit

ChannelStep ==
    \/ \E p \in 1..MaxPc : PcOnDataChannel(p)
    \/ \E d \in 1..MaxDc : DcOnOpen(d)

WsStep == \E raw \in Raws : \E accept \in RawVerdicts(raw) : WsOnMessage(raw, accept)

MessageStep ==
    \E d \in 1..MaxDc, data \in FewDatas : \E verdict \in MsgVerdicts(d) :
        received < MaxMsgs /\ DcOnMessage(d, data, verdict)

StateStep ==
    \/ \E p \in 1..MaxPc, state \in PcStates : PcOnStateChange(p, state)
    \/ \E p \in 1..MaxPc, state \in GatheringStates : PcOnGatheringStateChange(p, state)

LocalStep ==
    \/ \E p \in 1..MaxPc, type \in LocalTypes, sdp \in LocalSdps :
          PcOnLocalDescription(p, type, sdp)
    \/ \E p \in 1..MaxPc, c \in LocalCandidates, skip \in BOOLEAN :
          PcOnLocalCandidate(p, c, skip)

CloseStep == \E d \in 1..MaxDc : DcOnClosed(d)

ReadyStep == WsOnOpen \/ WsOnError

(* the whole program; the callbacks, which all react to the remote side, share
   one budget of MaxDeliveries deliveries, and the envelopes are the well-formed
   ones and one that is not JSON *)
Delivered ==
    wsCalls + received + events + Cardinality({d \in DOMAIN dcInfo : dcInfo[d].opened})
Budget == Delivered < MaxDeliveries
FewRaws == {Garbage} \cup {[bin |-> FALSE, wellFormed |-> TRUE, obj |-> o] : o \in FullObjs}
FewWsStep == \E raw \in FewRaws : \E accept \in RawVerdicts(raw) : WsOnMessage(raw, accept)

Next ==
    \/ MainStep
    \/ Budget /\ ChannelStep
    \/ Budget /\ FewWsStep
    \/ Budget /\ MessageStep
    \/ Budget /\ StateStep
    \/ Budget /\ LocalStep
    \/ Budget /\ CloseStep
    \/ Budget /\ ReadyStep

Spec == Init /\ [][Next]_vars

(* runs of the signaling handler and the interactive loop alone *)
NextSig == WsStep \/ MainStep

SpecSig == Init /\ [][NextSig]_vars

(* the same runs with ws->onMessage on its own thread, statement by statement *)
NextRace ==
    \/ \E raw \in Raws : WsLookup(raw)
    \/ WsCreate
    \/ \E accept \in Verdicts(wsStage.item) : WsApply(accept)
    \/ MainStep

SpecRace == Init /\ [][NextRace]_vars

(* runs in which the signaling channel delivers nothing *)
NextData == MainStep \/ ChannelStep \/ MessageStep

SpecData == Init /\ [][NextData]_vars

(* runs of the signaling handler, the interactive loop and the callbacks that
   send on the signaling channel, MaxEvents deliveries in all *)
NextRoute ==
    \/ MainStep
    \/ wsCalls + events < MaxEvents /\ FewWsStep
    \/ wsCalls + events < MaxEvents /\ LocalStep

SpecRoute == Init /\ [][NextRoute]_vars

(* runs from the wait for the signaling channel on: its open and error events,
   wsFuture.get(), and the interactive loop *)
NextWait == ReadyStep \/ MainGet \/ MainStep

SpecWait == InitWait /\ [][NextWait]_vars

(* runs without envelopes in which the callbacks of connections and channels
   fire before and after the cleanup, MaxEvents messages and local
   descriptions or candidates in all *)
NextLate ==
    \/ MainStep
    \/ ChannelStep
    \/ received + events < MaxEvents /\ MessageStep
    \/ received + events < MaxEvents /\ LocalStep

SpecLate == Init /\ [][NextLate]_vars

(* runs without envelopes in which the transport also closes channels *)
NextEcho == MainStep \/ ChannelStep \/ MessageStep \/ CloseStep

SpecEcho == Init /\ [][NextEcho]_vars

(* one session with its channel open: the state after the user offered to XY34,
   the channel was created and dc->onOpen ran *)
Established ==
    /\ peerConnectionMap = [t \in {"XY34"} |-> 1]
    /\ dataChannelMap = [t \in {"XY34"} |-> 1]
    /\ pcToken = [p \in {1} |-> "XY34"]
    /\ pcRemote = [p \in {1} |-> {}]
    /\ nextPc = 1
    /\ dcInfo = [d \in {1} |-> [token |-> "XY34", pc |-> 1, origin |-> "local",
                               opened |-> TRUE]]
    /\ dcSent = [d \in {1} |-> 2]
    /\ dcLastSent = [d \in {1} |-> HelloBinary]
    /\ mainPc = "prompt"
    /\ mainTok = "XY34"
    /\ mainLocalPc = None
    /\ wsCalls = 0
    /\ wsLast = NoWs
    /\ wsStage = NoStage
    /\ count = 0
    /\ freq = StartFreq
    /\ summaries = {}
    /\ calls = 0
    /\ received = 0
    /\ msgLast = NoMsg
    /\ out = NoOut
    /\ wsOut = <<>>
    /\ events = 0
    /\ log = NoLog
    /\ dcClosed = {}
    /\ torn = {}
    /\ wsPromise = "value"
    /\ prStage = [th \in Threads |-> NoCall]

InitEstablished == Established /\ echoDataChannelMessages \in BOOLEAN

(* messages of every length up to MaxTextLen arriving on the open channel *)
AllTexts == {[kind |-> "text", body |-> Body(l, s)] : l \in 0..MaxTextLen, s \in {0, 1}}
NextPrint ==
    \E data \in AllTexts \cup Binaries : \E verdict \in MsgVerdicts(1) :
        received < MaxMsgs /\ DcOnMessage(1, data, verdict)

SpecPrint == InitEstablished /\ [][NextPrint]_vars

(* a long stream of messages arriving on the open channel *)
NextStream ==
    \E data \in {[kind |-> "text", body |-> Body(1, 0)]} :
        \E verdict \in MsgVerdicts(1) : received < MaxStream /\ DcOnMessage(1, data, verdict)

SpecStream == InitEstablished /\ [][NextStream]_vars

(* ---- printReceived called over and over; only the echo branch calls it.
   The calls between two summaries do nothing but ++count: all but the first
   and the last two of them are taken in one step. ---- *)
PrintReceivedCall ==
    /\ count < MaxCount
    /\ count % freq \in {0, freq - 2, freq - 1}
    /\ printReceived(TRUE, "XY34", 1, "text")
    /\ UNCHANGED <<registry, pcVars, dcVars, echoDataChannelMessages, cbVars, mainVars, wsVars,
                   msgVars>>

(* k calls in a row, none of which takes the branch of line 334: none of
   count + 1 .. count + k is a multiple of freq *)
PrintReceivedQuiet ==
    LET k == freq - 3 IN
    /\ count % freq = 1
    /\ count + k <= MaxCount
    /\ (count % freq) + k < freq
    /\ count' = count + k
    /\ calls' = calls + k
    /\ UNCHANGED <<freq, summaries>>
    /\ UNCHANGED <<registry, pcVars, dcVars, echoDataChannelMessages, cbVars, mainVars, wsVars,
                   msgVars>>

NextCounter == PrintReceivedCall \/ PrintReceivedQuiet

InitCounter == Init /\ echoDataChannelMessages

SpecCounter == InitCounter /\ [][NextCounter]_vars

(* ---- printReceived on two transport threads at once: count and freq are
   plain static longs and nothing orders the calls. ++count is a load and a
   store; each is taken as one step, the kindest reading of the unsynchronised
   access, and the rest of the call runs with the store. ---- *)
(* line 334, first half of ++count: the thread reads count *)
PrLoad(th) ==
    /\ prStage[th].at = "idle"
    /\ calls < MaxRaceCalls
    /\ calls' = calls + 1
    /\ prStage' = [prStage EXCEPT ![th] = [at |-> "loaded", tmp |-> count]]
    /\ UNCHANGED <<registry, pcVars, dcVars, echoDataChannelMessages, mainVars, wsVars,
                   msgVars, count, freq, summaries, wsOut, events, log, dcClosed, torn,
                   wsPromise>>

(* lines 334-342: the thread writes back what it read plus one, and goes on
   with that value *)
PrStore(th) ==
    /\ prStage[th].at = "loaded"
    /\ count' = prStage[th].tmp + 1
    /\ summaries' = IF Hit(prStage[th].tmp, freq) THEN summaries \cup {prStage[th].tmp + 1}
                    ELSE summaries
    /\ freq' = NextFreq(prStage[th].tmp, freq)
    /\ prStage' = [prStage EXCEPT ![th] = NoCall]
    /\ UNCHANGED <<registry, pcVars, dcVars, echoDataChannelMessages, mainVars, wsVars,
                   msgVars, calls, wsOut, events, log, dcClosed, torn, wsPromise>>

NextCountRace == \E th \in Threads : PrLoad(th) \/ PrStore(th)

SpecCountRace == InitCounter /\ [][NextCountRace]_vars

(***************************************************************************)
(* The claims                                                              *)
(***************************************************************************)

(* C1: at most one peer connection is constructed and not yet released for any
   token, whatever envelopes arrive and whatever tokens the user enters. *)
C1_AtMostOneLivePcPerToken ==
    \A t \in Tokens : Cardinality(LivePcsOf(t)) <= 1

(* C2: an offer envelope for a token that has a session resolves to that very
   session and constructs nothing; an offer for a token without one constructs
   exactly one connection and registers it under the token. *)
C2_OfferResolvesToExistingSession ==
    [][(wsCalls' = wsCalls + 1 /\ wsLast'.decoded /\ wsLast'.type = "offer")
        => IF wsLast'.tok \in DOMAIN peerConnectionMap
           THEN /\ wsLast'.pc = peerConnectionMap[wsLast'.tok]
                /\ nextPc' = nextPc
                /\ pcToken' = pcToken
                /\ peerConnectionMap' = peerConnectionMap
           ELSE /\ nextPc' = nextPc + 1
                /\ wsLast'.pc = nextPc'
                /\ DOMAIN peerConnectionMap' = DOMAIN peerConnectionMap \cup {wsLast'.tok}
                /\ peerConnectionMap'[wsLast'.tok] = nextPc']_vars

(* two offers for one token, nothing from the user: one connection, one entry *)
C2_SecondOfferSameSession ==
    /\ wsCalls = 2
    /\ wsLast.type = "offer" /\ wsLast.found /\ wsLast.pc = 1
    /\ mainPc = "prompt" /\ mainTok = ""
    /\ nextPc = 1
    /\ peerConnectionMap = [t \in {wsLast.tok} |-> 1]

(* C3: between the handler's lookup of a token (line 129) and its insert (line
   326 reached from line 133) no other registry operation takes place, so the
   token the handler found absent is still absent when it inserts. *)
C3_LookupStillValidAtInsert ==
    wsStage.at = "create" => wsStage.token \notin DOMAIN peerConnectionMap

(* C4: an envelope of a type other than offer whose token has no session is
   discarded: nothing is constructed, nothing is applied to any connection and
   the registry is unchanged. *)
C4_NonOfferUnknownTokenDiscarded ==
    [][(/\ wsCalls' = wsCalls + 1
        /\ wsLast'.decoded
        /\ wsLast'.type # "offer"
        /\ wsLast'.tok \notin DOMAIN peerConnectionMap)
        => /\ wsLast'.result = "return"
           /\ wsLast'.pc = None
           /\ UNCHANGED <<peerConnectionMap, dataChannelMap, pcToken, pcRemote, nextPc>>]_vars

(* an answer for an unknown token was dropped while another session exists *)
C4_AnswerForUnknownTokenDropped ==
    /\ wsLast.decoded /\ wsLast.type = "answer" /\ wsLast.result = "return"
    /\ wsLast.tok \notin DOMAIN peerConnectionMap
    /\ DOMAIN peerConnectionMap # {}
    /\ \A p \in DOMAIN pcRemote : "answer" \notin pcRemote[p]

(* C5: a malformed payload (not text, not decodable, or without token or type)
   makes the handler return without raising a failure. *)
C5_MalformedSilentlyDiscarded ==
    wsLast.why \in {"binary", "parse", "no token", "no type"} => wsLast.result = "return"

(* C6: the registry never holds a session keyed by the local token and no
   connection is ever constructed for it. *)
C6_LocalTokenNeverRegistered ==
    /\ localToken \notin DOMAIN peerConnectionMap
    /\ \A p \in DOMAIN pcToken : pcToken[p] # localToken

(* C7: the frequency starts at 100, never decreases, never exceeds 1,000,000,
   changes only by a factor of 10 and only in the call that brings the counter to
   10 times the frequency; the counter grows by one per call. *)
C7_FrequencySchedule ==
    /\ freq = 100 /\ count = 0
    /\ [][/\ count' - count = calls' - calls
          /\ freq' >= freq
          /\ freq' <= 1000000
          /\ freq' # freq => /\ calls' = calls + 1
                             /\ freq' = 10 * freq
                             /\ count' = 10 * freq]_vars

(* the counter went past 10,000,000 and the frequency stayed at the cap *)
C7_CapHolds == freq = 1000000 /\ count > 10000000 /\ 10000000 \in summaries

(* C8 as stated: with echo off the messages are counted all the same, and 1050
   of them leave summaries at 100, 200, ..., 1000 and a frequency of 1000. *)
C8_CountedWithEchoOff ==
    ~echoDataChannelMessages
        => /\ count = received
           /\ received = 1050 => /\ summaries = {100 * k : k \in 1..10}
                                 /\ freq = 1000

(* the summaries of the first n messages: every 100th up to 1000, then every 1000th *)
ExpectedSummaries(n) ==
    {c \in 1..n : IF c <= 1000 THEN c % 100 = 0 ELSE c % 1000 = 0}

(* C8 amended: with echo on every message received is counted and a summary is
   printed exactly at #100, ..., #1000 and then at #2000; the frequency is 1000
   from #1000 on. With echo off printReceived is never called. *)
C8_CountedWithEchoOn ==
    /\ echoDataChannelMessages
        => /\ count = received
           /\ summaries = ExpectedSummaries(received)
           /\ freq = IF received < 1000 THEN 100 ELSE 1000
    /\ ~echoDataChannelMessages => count = 0 /\ summaries = {} /\ freq = 100

(* 1050 messages in echo mode: ten summaries, frequency 1000 *)
C8_After1050 ==
    /\ echoDataChannelMessages
    /\ received = 1050
    /\ summaries = {100 * k : k \in 1..10}
    /\ freq = 1000

(* C9: in echo mode a message received on a channel whose handle is live is
   sent back once, unchanged, on that channel, and on no other channel. *)
C9_EchoRoundTrip ==
    [][(/\ received' = received + 1
        /\ echoDataChannelMessages
        /\ msgLast'.dc \in LiveDcs)
        => /\ dcLastSent'[msgLast'.dc] = msgLast'.data
           /\ dcSent'[msgLast'.dc] = dcSent[msgLast'.dc] + 1
           /\ \A e \in DOMAIN dcSent \ {msgLast'.dc} :
                 dcSent'[e] = dcSent[e] /\ dcLastSent'[e] = dcLastSent[e]]_vars

(* a text of the greatest length was echoed on an incoming channel while a
   second channel exists *)
C9_LongTextEchoed ==
    /\ echoDataChannelMessages
    /\ msgLast.echoed
    /\ msgLast.data.kind = "text" /\ Len(msgLast.data.body) = MaxTextLen
    /\ dcInfo[msgLast.dc].origin = "remote"
    /\ dcLastSent[msgLast.dc] = msgLast.data
    /\ Cardinality(DOMAIN dcInfo) = 2

(* C10: with echo off a text of at most 79 units is printed whole without the
   ellipsis, a text of 80 or more as its first 80 units and the ellipsis, and a
   binary message as its size alone. *)
C10_TruncationBoundary ==
    (~echoDataChannelMessages /\ received > 0)
        => LET b == msgLast.data.body IN
           IF msgLast.data.kind = "text"
           THEN /\ out.kind = "text"
                /\ Len(b) <= 79 => out.prefix = b /\ out.ellipsis = ""
                /\ Len(b) >= 80 => /\ Len(out.prefix) = 80
                                   /\ \A i \in 1..80 : out.prefix[i] = b[i]
                                   /\ out.ellipsis = "..."
           ELSE /\ out.kind = "binary"
                /\ out.size = Len(b)
                /\ out.prefix = <<>> /\ out.ellipsis = ""

(* a text of exactly 80 units was printed with the ellipsis *)
C10_EightyTruncated ==
    /\ ~echoDataChannelMessages
    /\ msgLast.data.kind = "text" /\ Len(msgLast.data.body) = 80
    /\ out.ellipsis = "..." /\ Len(out.prefix) = 80

(* C11: attaching a channel for a token that already has a tracked channel
   replaces the tracked channel: after a channel is created for a token, by
   pc->onDataChannel or by the interactive loop, the channel registry holds
   that new channel under the token. *)
C11_LastWriteWins ==
    [][(DOMAIN dcInfo' # DOMAIN dcInfo)
        => LET d == Cardinality(DOMAIN dcInfo')
           IN  /\ dcInfo'[d].token \in DOMAIN dataChannelMap'
               /\ dataChannelMap'[dcInfo'[d].token] = d]_vars

(* what the two registries hold for a token *)
Entry(t) ==
    [pc |-> IF t \in DOMAIN peerConnectionMap THEN peerConnectionMap[t] ELSE None,
     dc |-> IF t \in DOMAIN dataChannelMap THEN dataChannelMap[t] ELSE None]

(* a step is an operation performed for token t *)
OperationFor(t) ==
    \/ \E raw \in FewRaws : \E accept \in RawVerdicts(raw) :
          Decode(raw).token = t /\ WsOnMessage(raw, accept)
    \/ MainOffer(t)
    \/ mainTok = t /\ MainCreateChannel
    \/ \E p \in DOMAIN pcToken :
          /\ pcToken[p] = t
          /\ \/ PcOnDataChannel(p)
             \/ \E state \in PcStates : PcOnStateChange(p, state)
             \/ \E type \in LocalTypes, sdp \in LocalSdps : PcOnLocalDescription(p, type, sdp)
             \/ \E c \in LocalCandidates, skip \in BOOLEAN : PcOnLocalCandidate(p, c, skip)
    \/ \E d \in DOMAIN dcInfo :
          /\ dcInfo[d].token = t
          /\ \/ \E data \in FewDatas : \E verdict \in MsgVerdicts(d) :
                   DcOnMessage(d, data, verdict)
             \/ DcOnOpen(d)
             \/ DcOnClosed(d)

(* C12: sessions are independent: an operation performed for a token t1 (an
   inbound envelope, a user-entered offer, an incoming data channel, a message
   received, a channel close, or any other callback of that session) leaves the
   tracked connection and the tracked channel of every other token unchanged:
   a step that changes what is tracked for t2 is an operation for no other
   token. *)
C12_SessionsIndependent ==
    [][\A t2 \in Tokens :
          \/ Entry(t2)' = Entry(t2)
          \/ \A t1 \in Tokens \ {t2} : ~OperationFor(t1)]_vars

(* both tokens have a session, and an answer for XY34 was applied to its
   connection while nothing was applied to the connection of QQ77 *)
C12_BothSessionsOneAnswered ==
    /\ DOMAIN peerConnectionMap = RemoteTokens
    /\ wsLast.tok = "XY34" /\ wsLast.result = "applied"
    /\ pcRemote[peerConnectionMap["XY34"]] = {"answer"}
    /\ pcRemote[peerConnectionMap["QQ77"]] = {}

(* C13: every description or candidate envelope sent on the signaling channel
   carries the token of the session whose callback produced it, and never the
   local token; an offer for a token without a session creates the session, and
   the local description the transport then yields goes out as one envelope
   {token, type, description} under that token. *)
C13_OutboundCarriesSessionToken ==
    \A i \in DOMAIN wsOut :
        /\ wsOut[i].token = pcToken[wsOut[i].from]
        /\ wsOut[i].token # localToken

(* the routing alone: a local description yielded by connection p while the
   signaling channel is live appends exactly the envelope of p's token *)
C13_DescriptionRouted ==
    [][\A p \in DOMAIN pcToken, type \in LocalTypes, sdp \in LocalSdps :
          (WsLocks /\ PcOnLocalDescription(p, type, sdp))
              => wsOut' = Append(wsOut, [from |-> p,
                                         keys |-> {"token", "type", "description"},
                                         token |-> pcToken[p], type |-> type,
                                         description |-> sdp, candidate |-> "",
                                         mid |-> ""])]_vars

(* C14: a failure while applying a remote description or candidate (the
   transport rejects it, or the envelope lacks the field of its type) does not
   stop the dispatch of signaling messages: after the failing call the channel
   is ready for the next envelope, whatever it is, and nothing is rolled back:
   a session created for the failing envelope is registered under its token and
   every other registry entry is as it was. *)
C14_FailureDoesNotStopDispatch ==
    /\ [](wsStage.at = "idle")
    /\ []((wsLast.result = "throw" /\ wsCalls < MaxEnv /\ nextPc < MaxPc)
            => \A raw \in Raws : ENABLED WsOnMessage(raw, TRUE))
    /\ [][(wsCalls' = wsCalls + 1 /\ wsLast'.decoded /\ wsLast'.result = "throw")
            => /\ wsLast'.created
                   => /\ wsLast'.tok \in DOMAIN peerConnectionMap'
                      /\ peerConnectionMap'[wsLast'.tok] = wsLast'.pc
               /\ \A t \in DOMAIN peerConnectionMap :
                      /\ t \in DOMAIN peerConnectionMap'
                      /\ peerConnectionMap'[t] = peerConnectionMap[t]
               /\ dataChannelMap' = dataChannelMap]_vars

(* the offer for XY34 failed and left its session registered with nothing
   applied; the envelope for QQ77 that came after it was applied *)
C14_AppliedAfterFailure ==
    /\ mainPc = "prompt" /\ mainTok = ""
    /\ wsCalls = 2
    /\ wsLast.tok = "QQ77" /\ wsLast.result = "applied"
    /\ "XY34" \in DOMAIN peerConnectionMap
    /\ pcRemote[peerConnectionMap["XY34"]] = {}

(* C15: in echo mode every message received calls the reception counter
   exactly once, whether the echo was sent, failed, or could not be attempted,
   and the echoed flag is true exactly when the payload went back out on the
   channel. *)
C15_CountedOnceEchoedIffSent ==
    [][(received' = received + 1 /\ echoDataChannelMessages)
        => /\ calls' = calls + 1
           /\ msgLast'.counted
           /\ msgLast'.echoed = (msgLast'.send = "sent")]_vars

(* C16: registry entries are removed only by the cleanup: in every step other
   than the cleanup each token that has a tracked connection or a tracked
   channel keeps it, the very same one; a channel close event and a transport
   state change leave both registries as they are, construct no connection and
   send nothing (no re-dial). *)
C16_EntriesRemovedOnlyByCleanup ==
    [][/\ (mainPc' # "exited" \/ mainPc = "exited")
            => /\ \A t \in DOMAIN peerConnectionMap :
                      /\ t \in DOMAIN peerConnectionMap'
                      /\ peerConnectionMap'[t] = peerConnectionMap[t]
               /\ \A t \in DOMAIN dataChannelMap :
                      /\ t \in DOMAIN dataChannelMap'
                      /\ dataChannelMap'[t] = dataChannelMap[t]
       /\ (events' = events + 1 /\ log'.kind \in {"state", "closed"})
            => /\ registry' = registry
               /\ nextPc' = nextPc
               /\ dcInfo' = dcInfo
               /\ wsOut' = wsOut]_vars

(* the transport closed the channel tracked for XY34, and both registries
   still hold the session *)
C16_ClosedChannelStillTracked ==
    /\ log.kind = "closed"
    /\ "XY34" \in DOMAIN dataChannelMap
    /\ dataChannelMap["XY34"] = log.id
    /\ log.id \in dcClosed
    /\ "XY34" \in DOMAIN peerConnectionMap

(* C17: the wait for signaling readiness is satisfied exactly once: the first
   open or error event the signaling channel delivers resolves it, and a later
   open or error event neither resolves it again nor raises a failure. *)
C17_ReadinessSettledOnce ==
    [][(events' = events + 1 /\ log'.kind \in {"open", "error"})
        => IF wsPromise = "unset"
           THEN wsPromise' # "unset" /\ log'.fault = ""
           ELSE wsPromise' = wsPromise /\ log'.fault = ""]_vars

(* C18: callbacks tolerate teardown: once the cleanup has cleared the
   registries, a callback that fires late (incoming data channel, message
   received, channel open, local description, local candidate) is a no-op: it
   leaves both registries empty, sends nothing on the signaling channel, and
   sends nothing on a channel that was released. *)
C18_LateCallbacksAreNoOps ==
    [][(mainPc = "exited" /\ mainPc' = "exited")
        => /\ peerConnectionMap' = EmptyMap
           /\ dataChannelMap' = EmptyMap
           /\ wsOut' = wsOut
           /\ \A d \in DOMAIN dcSent : dcSent'[d] = dcSent[d]]_vars

(* C19: increments of the reception counter are atomic: when the message
   callbacks of different sessions run at the same time in echo mode, no
   increment is lost, that is, whenever no call is in progress the counter
   equals the number of messages received, and no summary has been emitted
   before the counter reached the frequency. *)
C19_NoIncrementLost ==
    (\A th \in Threads : prStage[th].at = "idle")
        => /\ count = calls
           /\ summaries = {k \in 1..count : k % StartFreq = 0}

(* C20: before the cleanup every token with a tracked data channel also has a
   tracked peer connection, and the tracked channel was created on, or
   delivered by, the connection tracked under that token. *)
C20_TrackedChannelOnTrackedConnection ==
    mainPc # "exited"
        => \A t \in DOMAIN dataChannelMap :
               /\ t \in DOMAIN peerConnectionMap
               /\ dcInfo[dataChannelMap[t]].pc = peerConnectionMap[t]

====
